---- MODULE Spec2Model ----
(***************************************************************************)
(* Vivafolio Python runtime helpers: the notification builder, the         *)
(* hash-based "realistic" API (gui_state, color_picker, show_square) and   *)
(* the comment-scraping legacy API (vivafolio_picker, vivafolio_square).   *)
(*                                                                         *)
(* Python values are tagged records [t, v].  A dict is a sequence of       *)
(* <<key, value>> pairs in insertion order.  JSON text and source text are *)
(* sequences of tokens [k, v]; json.dumps, json.loads and the regular      *)
(* expression of the legacy extractor are computed on those tokens.        *)
(***************************************************************************)
EXTENDS Integers, Sequences, FiniteSets, TLC

VARIABLES stdout, registry, emitCalls, last, runNo, earlier, threads

vars == <<stdout, registry, emitCalls, last, runNo, earlier, threads>>

(***************************************************************************)
(* Bounds of the model.                                                    *)
(***************************************************************************)
MaxCalls == 2
MaxRuns == 2

(***************************************************************************)
(* Python values.                                                          *)
(***************************************************************************)
PyStr(s) == [t |-> "str", v |-> s]
PyInt(n) == [t |-> "int", v |-> n]
PyBool(b) == [t |-> "bool", v |-> b]
PyNone == [t |-> "none", v |-> "None"]
PyList(items) == [t |-> "list", v |-> items]
PyDict(pairs) == [t |-> "dict", v |-> pairs]
\* a value with a string form that json cannot serialize, e.g. the set {1, 2}
PySet(text) == [t |-> "set", v |-> text]

\* str(value)
Str(value) ==
    CASE value.t = "str" -> value.v
      [] value.t = "int" -> ToString(value.v)
      [] value.t = "set" -> value.v
      [] value.t = "none" -> "None"
      [] value.t = "bool" -> IF value.v THEN "True" ELSE "False"

\* truth value of an object, as tested by `if resources:`
Truthy(value) ==
    CASE value.t = "none" -> FALSE
      [] value.t = "bool" -> value.v
      [] value.t = "int" -> value.v # 0
      [] value.t = "str" -> value.v # ""
      [] value.t \in {"list", "dict"} -> Len(value.v) > 0
      [] OTHER -> TRUE

\* dict.keys()
DictKeys(d) == {d.v[i][1] : i \in 1..Len(d.v)}

\* d[key] = value: an existing key keeps its position, a new key is appended
DictSet(d, key, value) ==
    IF key \in DictKeys(d)
    THEN PyDict([i \in 1..Len(d.v) |->
                    IF d.v[i][1] = key THEN <<key, value>> ELSE d.v[i]])
    ELSE PyDict(Append(d.v, <<key, value>>))

\* d.get(key, default)
DictGet(d, key, default) ==
    IF key \in DictKeys(d)
    THEN d.v[CHOOSE i \in 1..Len(d.v) : d.v[i][1] = key][2]
    ELSE default

(***************************************************************************)
(* Tokens of JSON text and of source text.                                 *)
(***************************************************************************)
Tok(k, v) == [k |-> k, v |-> v]
P(c) == Tok("p", c)          \* punctuation: { } [ ] : ,
S(s) == Tok("s", s)          \* a JSON string literal
N(n) == Tok("n", ToString(n)) \* a JSON number literal
Lit(w) == Tok("lit", w)      \* true, false, null
Txt(w) == Tok("txt", w)      \* any other run of source characters
NL == Tok("nl", "\n")        \* the newline character

\* the integer literals that occur in the texts of the model
IntLiterals == {0, 1, 5, 100, 200}

(***************************************************************************)
(* json.dumps                                                              *)
(***************************************************************************)
RECURSIVE Serializable(_)
Serializable(value) ==
    CASE value.t \in {"str", "int", "bool", "none"} -> TRUE
      [] value.t = "list" -> \A i \in 1..Len(value.v) : Serializable(value.v[i])
      [] value.t = "dict" -> \A i \in 1..Len(value.v) : Serializable(value.v[i][2])
      [] OTHER -> FALSE

RECURSIVE JsonDumps(_)
JsonDumps(value) ==
    LET RECURSIVE Items(_, _)
        Items(items, i) ==
            IF i > Len(items) THEN << >>
            ELSE (IF i > 1 THEN <<P(",")>> ELSE << >>)
                 \o JsonDumps(items[i]) \o Items(items, i + 1)
        RECURSIVE Pairs(_, _)
        Pairs(pairs, i) ==
            IF i > Len(pairs) THEN << >>
            ELSE (IF i > 1 THEN <<P(",")>> ELSE << >>)
                 \o <<S(pairs[i][1]), P(":")>> \o JsonDumps(pairs[i][2])
                 \o Pairs(pairs, i + 1)
    IN  CASE value.t = "str" -> <<S(value.v)>>
          [] value.t = "int" -> <<N(value.v)>>
          [] value.t = "bool" -> <<Lit(IF value.v THEN "true" ELSE "false")>>
          [] value.t = "none" -> <<Lit("null")>>
          [] value.t = "list" -> <<P("[")>> \o Items(value.v, 1) \o <<P("]")>>
          [] value.t = "dict" -> <<P("{")>> \o Pairs(value.v, 1) \o <<P("}")>>

(***************************************************************************)
(* json.loads: a recursive-descent parser.  A result is [ok, val, next];   *)
(* ok = FALSE stands for json.JSONDecodeError.                             *)
(***************************************************************************)
ParseFail == [ok |-> FALSE, val |-> PyNone, next |-> 0]
ParseOk(value, next) == [ok |-> TRUE, val |-> value, next |-> next]

IsTok(toks, i, tok) == i <= Len(toks) /\ toks[i] = tok

RECURSIVE ParseValue(_, _), ParseMembers(_, _, _), ParseElements(_, _, _)
ParseValue(toks, i) ==
    IF i > Len(toks) THEN ParseFail
    ELSE CASE toks[i].k = "s" -> ParseOk(PyStr(toks[i].v), i + 1)
           [] toks[i].k = "n" ->
                ParseOk(PyInt(CHOOSE n \in IntLiterals : ToString(n) = toks[i].v), i + 1)
           [] toks[i] = Lit("true") -> ParseOk(PyBool(TRUE), i + 1)
           [] toks[i] = Lit("false") -> ParseOk(PyBool(FALSE), i + 1)
           [] toks[i] = Lit("null") -> ParseOk(PyNone, i + 1)
           [] toks[i] = P("{") ->
                IF IsTok(toks, i + 1, P("}")) THEN ParseOk(PyDict(<< >>), i + 2)
                ELSE ParseMembers(toks, i + 1, PyDict(<< >>))
           [] toks[i] = P("[") ->
                IF IsTok(toks, i + 1, P("]")) THEN ParseOk(PyList(<< >>), i + 2)
                ELSE ParseElements(toks, i + 1, << >>)
           [] OTHER -> ParseFail

ParseMembers(toks, i, acc) ==
    IF ~(i + 1 <= Len(toks) /\ toks[i].k = "s" /\ toks[i + 1] = P(":"))
    THEN ParseFail
    ELSE LET r == ParseValue(toks, i + 2)
         IN  IF ~r.ok THEN ParseFail
             ELSE LET d == DictSet(acc, toks[i].v, r.val)
                  IN  IF IsTok(toks, r.next, P(",")) THEN ParseMembers(toks, r.next + 1, d)
                      ELSE IF IsTok(toks, r.next, P("}")) THEN ParseOk(d, r.next + 1)
                      ELSE ParseFail

ParseElements(toks, i, acc) ==
    LET r == ParseValue(toks, i)
    IN  IF ~r.ok THEN ParseFail
        ELSE LET items == Append(acc, r.val)
             IN  IF IsTok(toks, r.next, P(",")) THEN ParseElements(toks, r.next + 1, items)
                 ELSE IF IsTok(toks, r.next, P("]")) THEN ParseOk(PyList(items), r.next + 1)
                 ELSE ParseFail

\* json.loads(text): the whole text must be one value
JsonLoads(toks) ==
    LET r == ParseValue(toks, 1)
    IN  IF r.ok /\ r.next = Len(toks) + 1 THEN r ELSE ParseFail

(***************************************************************************)
(* Standard output: the tokens written so far.  print(text, flush=True)    *)
(* writes the text and then the newline.                                   *)
(***************************************************************************)
WriteLine(out, text) == out \o text \o <<NL>>

\* positions of the newline characters of a stream
NewlineAt(out) == {i \in 1..Len(out) : out[i] = NL}

\* the complete lines of a stream, each without its newline
RECURSIVE LinesFrom(_, _)
LinesFrom(out, start) ==
    IF \A i \in start..Len(out) : out[i] # NL THEN << >>
    ELSE LET e == CHOOSE i \in start..Len(out) :
                      out[i] = NL /\ \A j \in start..(i - 1) : out[j] # NL
         IN  <<SubSeq(out, start, e - 1)>> \o LinesFrom(out, e + 1)

Lines(out) == LinesFrom(out, 1)

(***************************************************************************)
(* Notification Builder                                                    *)
(***************************************************************************)
BlockTypeUri(block_type) ==
    "https://blockprotocol.org/@blockprotocol/types/block-type/" \o block_type \o "/"

DefaultDisplayMode == PyStr("multi-line")
DefaultInitialHeight == PyInt(200)

\* variant: `resources` attached whenever it is not None
NotificationNotNone(block_id, block_type, entity_id, entity_graph, resources, display_mode, initial_height) ==
    LET notification == PyDict(<<
            <<"blockId", block_id>>,
            <<"blockType", PyStr(BlockTypeUri(Str(block_type)))>>,
            <<"displayMode", display_mode>>,
            <<"entityId", entity_id>>,
            <<"entityGraph", entity_graph>>,
            <<"supportsHotReload", PyBool(FALSE)>>,
            <<"initialHeight", initial_height>> >>)
    IN  IF resources # PyNone THEN DictSet(notification, "resources", resources)
        ELSE notification

\* variant: the graph is sent under the key `initialGraph`
NotificationInitialGraph(block_id, block_type, entity_id, entity_graph, resources, display_mode, initial_height) ==
    LET notification == PyDict(<<
            <<"blockId", block_id>>,
            <<"blockType", PyStr(BlockTypeUri(Str(block_type)))>>,
            <<"displayMode", display_mode>>,
            <<"entityId", entity_id>>,
            <<"initialGraph", entity_graph>>,
            <<"supportsHotReload", PyBool(FALSE)>>,
            <<"initialHeight", initial_height>> >>)
    IN  IF Truthy(resources) THEN DictSet(notification, "resources", resources)
        ELSE notification

\* the notification dict of the builder, `resources` attached only if truthy
Notification(block_id, block_type, entity_id, entity_graph, resources, display_mode, initial_height) ==
    LET notification == PyDict(<<
            <<"blockId", block_id>>,
            <<"blockType", PyStr(BlockTypeUri(Str(block_type)))>>,
            <<"displayMode", display_mode>>,
            <<"entityId", entity_id>>,
            <<"entityGraph", entity_graph>>,
            <<"supportsHotReload", PyBool(FALSE)>>,
            <<"initialHeight", initial_height>> >>)
    IN  IF Truthy(resources) THEN DictSet(notification, "resources", resources)
        ELSE notification

\* print(json.dumps(notification), flush=True); json.dumps raises TypeError
\* before anything is written when a value is not serializable
EmitLine(out, notification) ==
    IF Serializable(notification)
    THEN [exc |-> "", out |-> WriteLine(out, JsonDumps(notification))]
    ELSE [exc |-> "TypeError", out |-> out]

\* core.emit_vivafolioblock_notification
emit_vivafolioblock_notification(out, block_id, block_type, entity_id, entity_graph, resources, display_mode, initial_height) ==
    EmitLine(out, Notification(block_id, block_type, entity_id, entity_graph,
                               resources, display_mode, initial_height))

\* legacy.emit_vivafolioblock_notification: display mode and height are fixed
legacy_emit_vivafolioblock_notification(out, block_id, block_type, entity_id, entity_graph, resources) ==
    EmitLine(out, Notification(block_id, block_type, entity_id, entity_graph,
                               resources, PyStr("multi-line"), PyInt(200)))

(***************************************************************************)
(* Entity graph and resource descriptor                                    *)
(***************************************************************************)
\* variant: the entity of the graph carries an identifier of its own
EntityGraphOwnId(entity_id, color) ==
    PyDict(<< <<"entities", PyList(<< PyDict(<<
                    <<"entityId", PyStr("entity-1")>>,
                    <<"properties", PyDict(<< <<"color", color>> >>)>> >>) >>)>>,
              <<"links", PyList(<< >>)>> >>)

EntityGraph(entity_id, color) ==
    PyDict(<< <<"entities", PyList(<< PyDict(<<
                    <<"entityId", entity_id>>,
                    <<"properties", PyDict(<< <<"color", color>> >>)>> >>) >>)>>,
              <<"links", PyList(<< >>)>> >>)

\* directory that holds blocks/: three levels above the module's directory
BlocksRoot == "/opt/vivafolio"

\* os.path.abspath(os.path.join(os.path.dirname(__file__), "../../../blocks/<slug>/dist/index.html"))
HtmlAbsPath(slug) == BlocksRoot \o "/blocks/" \o slug \o "/dist/index.html"

HtmlResources(slug, caching_tag) ==
    PyList(<< PyDict(<< <<"logicalName", PyStr("index.html")>>,
                        <<"physicalPath", PyStr("file://" \o HtmlAbsPath(slug))>>,
                        <<"cachingTag", PyStr(caching_tag)>> >>) >>)

(***************************************************************************)
(* Identity Deriver (realistic API)                                        *)
(***************************************************************************)
\* hashlib.md5(text.encode()).hexdigest()[:8] on the strings of the model
Md5Hex8(text) ==
    CASE text = "#ff0000" -> "cc704d2a"
      [] text = "#112233" -> "46c164c8"
      [] text = "#ffffff" -> "54922f2e"
      [] text = "#3700ff" -> "8aa73717"
      [] text = "1" -> "c4ca4238"
      [] text = "{1, 2}" -> "190cda75"

\* hash(text) of the runtime: salted anew in every process instance
RuntimeHash(text, run) == ToString(run) \o Md5Hex8(text)

color_hash_runtime(color_value) == RuntimeHash(Str(color_value), runNo)
color_hash(color_value) == Md5Hex8(Str(color_value))

\* a call result: the exception raised ("" if none), the stream, the value
\* returned, and how many times the builder was called
Returned(out, value, calls) == [exc |-> "", out |-> out, ret |-> value, calls |-> calls]
Raised(exc, out, calls) == [exc |-> exc, out |-> out, ret |-> PyNone, calls |-> calls]

color_picker(out, color_value, html_exists) ==
    LET block_id == PyStr("color-picker-" \o color_hash(color_value))
        entity_id == PyStr("color-entity-" \o color_hash(color_value))
        entity_graph == EntityGraph(entity_id, color_value)
        resources == IF html_exists THEN HtmlResources("color-picker", "picker-v2")
                     ELSE PyNone
        e == emit_vivafolioblock_notification(out, block_id, PyStr("color-picker"),
                 entity_id, entity_graph, resources,
                 DefaultDisplayMode, DefaultInitialHeight)
    IN  IF e.exc # "" THEN Raised(e.exc, e.out, 1)
        ELSE Returned(e.out, color_value, 1)

\* variant: the square returns its input without emitting
show_square_silent(out, color_value, html_exists) == Returned(out, color_value, 0)

show_square(out, color_value, html_exists) ==
    LET block_id == PyStr("color-square-" \o color_hash(color_value))
        entity_id == PyStr("square-entity-" \o color_hash(color_value))
        entity_graph == EntityGraph(entity_id, color_value)
        resources == IF html_exists THEN HtmlResources("color-square", "square-v2")
                     ELSE PyNone
        e == emit_vivafolioblock_notification(out, block_id, PyStr("color-square"),
                 entity_id, entity_graph, resources,
                 DefaultDisplayMode, DefaultInitialHeight)
    IN  IF e.exc # "" THEN Raised(e.exc, e.out, 1)
        ELSE Returned(e.out, color_value, 1)

(***************************************************************************)
(* State Registry                                                          *)
(***************************************************************************)
\* gui_state has no _registry attribute until its first call
NoRegistry == [has |-> FALSE, d |-> PyDict(<< >>)]

\* variant: the key is the file name alone
SiteKeyFileOnly(site) == site[1]

\* key = f"{filename}:{line_number}"
SiteKey(site) == site[1] \o ":" \o ToString(site[2])

\* the caller's frame when gui_state is not called from Python code
NoSite == <<"", 0>>

\* gui_state(value) called from `site`: the registry afterwards and the value
\* returned; nothing is stored when there is no caller frame
gui_state(reg, site, value) ==
    LET created == IF ~reg.has THEN [has |-> TRUE, d |-> PyDict(<< >>)] ELSE reg
    IN  [reg |-> IF site # NoSite
                 THEN [has |-> TRUE, d |-> DictSet(created.d, SiteKey(site), value)]
                 ELSE created,
         ret |-> value]

(***************************************************************************)
(* Legacy State Extractor                                                  *)
(***************************************************************************)
\* the literal text `# gui_state:` in a source line
Marker == Txt("# gui_state:")

\* re.search(r'# gui_state:\s*(\{.*\})', line): the leftmost marker that is
\* followed by `{` (white space apart) and has a `}` later in the line; the
\* group runs from that `{` to the last `}` of the line
MatchStarts(line) ==
    {i \in 1..Len(line) : /\ line[i] = Marker
                          /\ IsTok(line, i + 1, P("{"))
                          /\ \E j \in (i + 2)..Len(line) : line[j] = P("}")}

ReSearch(line) ==
    IF MatchStarts(line) = {} THEN [found |-> FALSE, group |-> << >>]
    ELSE LET i == CHOOSE a \in MatchStarts(line) : \A b \in MatchStarts(line) : a <= b
             j == CHOOSE a \in (i + 2)..Len(line) :
                      /\ line[a] = P("}")
                      /\ \A b \in (a + 1)..Len(line) : line[b] # P("}")
         IN  [found |-> TRUE, group |-> SubSeq(line, i + 1, j)]

DefaultColor == PyStr("#3700ff")

DefaultState(block_type) ==
    IF block_type = "picker" THEN PyDict(<< <<"properties", PyDict(<< <<"color", DefaultColor>> >>)>> >>)
    ELSE IF block_type = "square" THEN PyDict(<< <<"properties", PyDict(<< <<"color", DefaultColor>> >>)>> >>)
    ELSE PyDict(<< <<"properties", PyDict(<< >>)>> >>)

\* the loop over the lines, from line n on: the state returned, or the
\* exception that leaves the function (json.JSONDecodeError is caught)
Extracted(state) == [exc |-> "", val |-> state]

\* variant: the decode error is not caught
RECURSIVE ExtractFromUncaught(_, _, _)
ExtractFromUncaught(source_lines, n, block_type) ==
    IF n > Len(source_lines) THEN Extracted(DefaultState(block_type))
    ELSE LET match == ReSearch(source_lines[n])
             parsed == JsonLoads(match.group)
         IN  IF match.found /\ parsed.ok THEN Extracted(parsed.val)
             ELSE IF match.found THEN [exc |-> "JSONDecodeError", val |-> PyNone]
             ELSE ExtractFromUncaught(source_lines, n + 1, block_type)

\* variant: the scan ends at the first line that matches, parsable or not
RECURSIVE ExtractFirstMatchOnly(_, _, _)
ExtractFirstMatchOnly(source_lines, n, block_type) ==
    IF n > Len(source_lines) THEN Extracted(DefaultState(block_type))
    ELSE LET match == ReSearch(source_lines[n])
             parsed == JsonLoads(match.group)
         IN  IF match.found /\ parsed.ok THEN Extracted(parsed.val)
             ELSE IF match.found THEN Extracted(DefaultState(block_type))
             ELSE ExtractFirstMatchOnly(source_lines, n + 1, block_type)

\* variant: the scan does not stop at the first parsable marker, the last one wins
RECURSIVE ExtractLastParsable(_, _, _)
ExtractLastParsable(source_lines, n, block_type) ==
    IF n > Len(source_lines) THEN Extracted(DefaultState(block_type))
    ELSE LET match == ReSearch(source_lines[n])
             parsed == JsonLoads(match.group)
             later == \E j \in (n + 1)..Len(source_lines) :
                          /\ ReSearch(source_lines[j]).found
                          /\ JsonLoads(ReSearch(source_lines[j]).group).ok
         IN  IF match.found /\ parsed.ok /\ ~later THEN Extracted(parsed.val)
             ELSE ExtractLastParsable(source_lines, n + 1, block_type)

RECURSIVE ExtractFrom(_, _, _)
ExtractFrom(source_lines, n, block_type) ==
    IF n > Len(source_lines) THEN Extracted(DefaultState(block_type))
    ELSE LET match == ReSearch(source_lines[n])
             parsed == JsonLoads(match.group)
         IN  IF match.found /\ parsed.ok THEN Extracted(parsed.val)
             ELSE ExtractFrom(source_lines, n + 1, block_type)

extract_gui_state_from_source(source_lines, block_type) ==
    ExtractFrom(source_lines, 1, block_type)

\* the shared body of vivafolio_picker and vivafolio_square
LegacyBlock(out, source_lines, block_id, html_exists, block_type, slug, caching_tag) ==
    LET extracted == extract_gui_state_from_source(source_lines, block_type)
        current_state == extracted.val
        properties == DictGet(current_state, "properties", PyDict(<< >>))
    IN  IF extracted.exc # "" THEN Raised(extracted.exc, out, 0)
        ELSE IF properties.t # "dict" THEN Raised("AttributeError", out, 0)
        ELSE LET color == DictGet(properties, "color", DefaultColor)
                 entity_id == PyStr("entity-" \o Str(block_id))
                 initial_graph == EntityGraph(entity_id, color)
                 e == IF html_exists
                      THEN legacy_emit_vivafolioblock_notification(out, block_id,
                               PyStr(slug), entity_id, initial_graph,
                               HtmlResources(slug, caching_tag))
                      ELSE legacy_emit_vivafolioblock_notification(out, block_id,
                               PyStr(slug), entity_id, initial_graph, PyNone)
             IN  IF e.exc # "" THEN Raised(e.exc, e.out, 1) ELSE Returned(e.out, PyNone, 1)

vivafolio_picker(out, source_lines, block_id, html_exists) ==
    LegacyBlock(out, source_lines, block_id, html_exists, "picker", "color-picker", "picker-v2")

vivafolio_square(out, source_lines, block_id, html_exists) ==
    LegacyBlock(out, source_lines, block_id, html_exists, "square", "color-square", "square-v2")

(***************************************************************************)
(* Caller sources of the legacy API, as lines of tokens.                   *)
(***************************************************************************)
StateText(c) ==
    <<P("{"), S("properties"), P(":"), P("{"), S("color"), P(":"), S(c), P("}"), P("}")>>

PickerLine == <<Txt("vivafolio_picker()")>>
SquareLine == <<Txt("vivafolio_square()")>>
\* vivafolio_picker()  # gui_state: {"properties":{"color":c}}
GoodLine(c) == PickerLine \o <<Marker>> \o StateText(c)
\* # gui_state: {not valid json}
BadLine == <<Marker, P("{"), Txt("not valid json"), P("}")>>
\* # gui_state: {"properties":{"color":c}}  # was {old}
TrailingLine(c) == <<Marker>> \o StateText(c) \o <<Txt("# was"), P("{"), Txt("old"), P("}")>>
\* # gui_state: {"color": "#ff0000"}
FlatLine == <<Marker, P("{"), S("color"), P(":"), S("#ff0000"), P("}")>>
\* # gui_state: {"properties": 5}
NumberLine == <<Marker, P("{"), S("properties"), P(":"), N(5), P("}")>>
\* # gui_state: pending  # gui_state: {"properties":{"color":c}}
LateLine(c) == <<Marker, Txt("pending"), Marker>> \o StateText(c)

Sources ==
    { <<PickerLine, SquareLine>>,
      <<GoodLine("#112233"), SquareLine>>,
      <<BadLine, PickerLine>>,
      <<BadLine, GoodLine("#112233")>>,
      <<GoodLine("#ff0000"), GoodLine("#112233")>>,
      <<FlatLine, GoodLine("#112233")>>,
      <<NumberLine>>,
      <<TrailingLine("#112233"), SquareLine>>,
      <<LateLine("#ff0000")>> }

(***************************************************************************)
(* The calling program.  `last` is the call that ran last: its function,   *)
(* arguments and outcome.  A call is chained when its argument is the      *)
(* value the previous call returned, as in                                 *)
(* show_square(color_picker(gui_state(v))); `via` lists the functions of   *)
(* the chain, `v0` is the value it started from and `base` the length of   *)
(* the stream when it started.                                             *)
(***************************************************************************)
MaxChain == 3

Colors == {PyStr("#ff0000"), PyStr("#112233")}
Values == Colors \cup {PySet("{1, 2}")}
\* call sites of gui_state: (file name, line number)
ChainSites == {<<"two_blocks_realistic.py", 25>>}
Sites == {<<"demo.py", 25>>, <<"demo.py", 26>>, <<"other.py", 25>>}
\* values of the programs that are run more than once
RunValues == {PyStr("#ff0000"), PyStr("1"), PyInt(1)}

WhiteGraph == EntityGraph(PyStr("entity-1"), PyStr("#ffffff"))
TestResources ==
    PyList(<< PyDict(<< <<"logicalName", PyStr("index.html")>>,
                        <<"physicalPath", PyStr("file:///tmp/index.html")>> >>) >>)

EmitArgs(entity_graph, resources, display_mode, initial_height) ==
    [block_id |-> PyStr("block-1"), block_type |-> PyStr("color-picker"),
     entity_id |-> PyStr("entity-1"), entity_graph |-> entity_graph,
     resources |-> resources, display_mode |-> display_mode,
     initial_height |-> initial_height]

\* argument lists of direct calls of the builder
EmitInputs ==
    { EmitArgs(WhiteGraph, TestResources, DefaultDisplayMode, DefaultInitialHeight),
      EmitArgs(WhiteGraph, PyNone, PyStr("inline"), PyInt(100)),
      EmitArgs(WhiteGraph, PyList(<< >>), DefaultDisplayMode, DefaultInitialHeight),
      EmitArgs(PyDict(<< <<"entities", PyList(<< >>)>> >>), PyNone,
               DefaultDisplayMode, DefaultInitialHeight),
      EmitArgs(PyDict(<< <<"links", PyList(<< >>)>> >>), TestResources,
               DefaultDisplayMode, DefaultInitialHeight) }

\* the threads of the program besides the main thread, and what each is doing:
\* the function it is in, its arguments, the statement it is at (pc), the text
\* it is printing and the exception it ended with
MaxThreads == 2
Threads == 1..MaxThreads

Idle ==
    [pc |-> "idle", fn |-> "", value |-> PyNone, exists |-> FALSE,
     text |-> << >>, exc |-> ""]

NoCall ==
    [fn |-> "", args |-> << >>, src |-> << >>, site |-> NoSite, exists |-> FALSE,
     exc |-> "", ret |-> PyNone, via |-> << >>, v0 |-> PyNone, base |-> 0]

CanChain == last.fn # "" /\ last.exc = "" /\ Len(last.via) < MaxChain

\* the record of a call of `fn`
CallRecord(fn, args, src, site, exists, exc, ret, chained) ==
    [fn |-> fn, args |-> args, src |-> src, site |-> site, exists |-> exists,
     exc |-> exc, ret |-> ret,
     via |-> IF chained THEN Append(last.via, fn) ELSE <<fn>>,
     v0 |-> IF chained THEN last.v0 ELSE (IF Len(args) > 0 THEN args[1] ELSE PyNone),
     base |-> IF chained THEN last.base ELSE Len(stdout)]

Init ==
    /\ stdout = << >>
    /\ registry = NoRegistry
    /\ emitCalls = 0
    /\ last = NoCall
    /\ runNo = 1
    /\ earlier = {}
    /\ threads = [t \in Threads |-> Idle]

GuiState(site, value, chained) ==
    /\ chained => CanChain /\ value = last.ret
    /\ LET r == gui_state(registry, site, value)
       IN  /\ registry' = r.reg
           /\ last' = CallRecord("gui_state", <<value>>, << >>, site, FALSE,
                                 "", r.ret, chained)
    /\ UNCHANGED <<stdout, emitCalls, runNo, earlier, threads>>

ColorPicker(value, exists, chained) ==
    /\ emitCalls < MaxCalls
    /\ chained => CanChain /\ value = last.ret
    /\ LET r == color_picker(stdout, value, exists)
       IN  /\ stdout' = r.out
           /\ last' = CallRecord("color_picker", <<value>>, << >>, NoSite, exists,
                                 r.exc, r.ret, chained)
           /\ emitCalls' = emitCalls + r.calls
    /\ UNCHANGED <<registry, runNo, earlier, threads>>

ShowSquare(value, exists, chained) ==
    /\ emitCalls < MaxCalls
    /\ chained => CanChain /\ value = last.ret
    /\ LET r == show_square(stdout, value, exists)
       IN  /\ stdout' = r.out
           /\ last' = CallRecord("show_square", <<value>>, << >>, NoSite, exists,
                                 r.exc, r.ret, chained)
           /\ emitCalls' = emitCalls + r.calls
    /\ UNCHANGED <<registry, runNo, earlier, threads>>

Emit(a) ==
    /\ emitCalls < MaxCalls
    /\ LET e == emit_vivafolioblock_notification(stdout, a.block_id, a.block_type,
                    a.entity_id, a.entity_graph, a.resources, a.display_mode,
                    a.initial_height)
       IN  /\ stdout' = e.out
           /\ last' = CallRecord("emit_vivafolioblock_notification",
                                 <<a.block_id, a.block_type, a.entity_id,
                                   a.entity_graph, a.resources>>,
                                 << >>, NoSite, FALSE, e.exc, PyNone, FALSE)
    /\ emitCalls' = emitCalls + 1
    /\ UNCHANGED <<registry, runNo, earlier, threads>>


VivafolioPicker(src, exists) ==
    /\ emitCalls < MaxCalls
    /\ LET r == vivafolio_picker(stdout, src, PyStr("picker-123"), exists)
       IN  /\ stdout' = r.out
           /\ last' = CallRecord("vivafolio_picker", <<PyStr("picker-123")>>, src, NoSite,
                                 exists, r.exc, r.ret, FALSE)
           /\ emitCalls' = emitCalls + r.calls
    /\ UNCHANGED <<registry, runNo, earlier, threads>>

VivafolioSquare(src, exists) ==
    /\ emitCalls < MaxCalls
    /\ LET r == vivafolio_square(stdout, src, PyStr("square-456"), exists)
       IN  /\ stdout' = r.out
           /\ last' = CallRecord("vivafolio_square", <<PyStr("square-456")>>, src, NoSite,
                                 exists, r.exc, r.ret, FALSE)
           /\ emitCalls' = emitCalls + r.calls
    /\ UNCHANGED <<registry, runNo, earlier, threads>>

(***************************************************************************)
(* Spec: a program that uses the functions of the core module, inline      *)
(* chains included.                                                        *)
(***************************************************************************)
GuiStateCall == \E site \in ChainSites, value \in Values, chained \in BOOLEAN :
                    GuiState(site, value, chained)
ColorPickerCall == \E value \in Values, exists \in BOOLEAN, chained \in BOOLEAN :
                       ColorPicker(value, exists, chained)
ShowSquareCall == \E value \in Values, exists \in BOOLEAN, chained \in BOOLEAN :
                      ShowSquare(value, exists, chained)

EmitCall == \E a \in EmitInputs : Emit(a)

Next == GuiStateCall \/ ColorPickerCall \/ ShowSquareCall \/ EmitCall

Spec == Init /\ [][Next]_vars

(***************************************************************************)
(* SpecBlocks: a program that calls the five functions that emit.          *)
(***************************************************************************)
PickerBlock == \E value \in Values, exists \in BOOLEAN : ColorPicker(value, exists, FALSE)
SquareBlock == \E value \in Values, exists \in BOOLEAN : ShowSquare(value, exists, FALSE)
EmitBlock == \E a \in EmitInputs : Emit(a)
VivafolioPickerCall == \E src \in Sources, exists \in BOOLEAN : VivafolioPicker(src, exists)
VivafolioSquareCall == \E src \in Sources, exists \in BOOLEAN : VivafolioSquare(src, exists)

NextBlocks == PickerBlock \/ SquareBlock \/ EmitBlock
              \/ VivafolioPickerCall \/ VivafolioSquareCall

SpecBlocks == Init /\ [][NextBlocks]_vars

(***************************************************************************)
(* SpecRegistry: a program that calls gui_state at several call sites.     *)
(***************************************************************************)
NextRegistry == \E site \in Sites \cup {NoSite}, value \in Values, chained \in BOOLEAN :
                    GuiState(site, value, chained)

SpecRegistry == Init /\ [][NextRegistry]_vars

(***************************************************************************)
(* SpecRuns: a program that is run again and again, each run a new         *)
(* process.  `earlier` keeps what the earlier runs wrote: for each line    *)
(* the block type, the string form of the color and the two identifiers.   *)
(***************************************************************************)
\* notification[k1][k2]... of a parsed line
Field(d, key) == IF d.t = "dict" THEN DictGet(d, key, PyNone) ELSE PyNone
Item(l, i) == IF l.t = "list" /\ i <= Len(l.v) THEN l.v[i] ELSE PyNone

\* notification["entityGraph"]["entities"][0]["properties"]["color"]
ColorOf(notification) ==
    Field(Field(Item(Field(Field(notification, "entityGraph"), "entities"), 1),
                "properties"), "color")

IdsOfLine(line) ==
    LET n == JsonLoads(line).val
    IN  [blockType |-> Field(n, "blockType").v, text |-> Str(ColorOf(n)),
         blockId |-> Field(n, "blockId").v, entityId |-> Field(n, "entityId").v]

IdsOf(out) == {IdsOfLine(Lines(out)[i]) : i \in 1..Len(Lines(out))}

\* the process exits and the program is started again
Restart ==
    /\ runNo < MaxRuns
    /\ stdout # << >>
    /\ earlier' = earlier \cup IdsOf(stdout)
    /\ runNo' = runNo + 1
    /\ stdout' = << >>
    /\ registry' = NoRegistry
    /\ emitCalls' = 0
    /\ last' = NoCall
    /\ UNCHANGED threads

PickerRun == \E value \in RunValues, exists \in BOOLEAN : ColorPicker(value, exists, FALSE)
SquareRun == \E value \in RunValues, exists \in BOOLEAN : ShowSquare(value, exists, FALSE)

NextRuns == PickerRun \/ SquareRun \/ Restart

SpecRuns == Init /\ [][NextRuns]_vars

(***************************************************************************)
(* SpecThreads: threads that call gui_state, each at a call site of its    *)
(* own.  The interpreter may switch threads after the hasattr() call and   *)
(* after the inspect.currentframe() call of gui_state, so a call is three  *)
(* steps: the test, the creation of the registry, the insert.              *)
(***************************************************************************)
\* the line of thread t's function that calls gui_state
ThreadSite(t) == <<"workers.py", 10 + t>>

\* thread t calls gui_state(value)
ThreadCall(t, value) ==
    /\ threads[t].pc = "idle"
    /\ threads' = [threads EXCEPT ![t] = [Idle EXCEPT !.pc = "hasattr",
                                                      !.fn = "gui_state",
                                                      !.value = value]]
    /\ UNCHANGED <<stdout, registry, emitCalls, last, runNo, earlier>>

\* if not hasattr(gui_state, '_registry'):
CheckRegistry(t) ==
    /\ threads[t].pc = "hasattr"
    /\ threads' = [threads EXCEPT ![t].pc = IF registry.has THEN "store" ELSE "create"]
    /\ UNCHANGED <<stdout, registry, emitCalls, last, runNo, earlier>>

\* gui_state._registry = {}
CreateRegistry(t) ==
    /\ threads[t].pc = "create"
    /\ registry' = [has |-> TRUE, d |-> PyDict(<< >>)]
    /\ threads' = [threads EXCEPT ![t].pc = "store"]
    /\ UNCHANGED <<stdout, emitCalls, last, runNo, earlier>>

\* gui_state._registry[key] = value; return value
StoreEntry(t) ==
    /\ threads[t].pc = "store"
    /\ registry' = [has |-> TRUE,
                    d |-> DictSet(registry.d, SiteKey(ThreadSite(t)), threads[t].value)]
    /\ threads' = [threads EXCEPT ![t].pc = "done"]
    /\ UNCHANGED <<stdout, emitCalls, last, runNo, earlier>>

ThreadCallStep == \E t \in Threads, value \in Values : ThreadCall(t, value)
CheckRegistryStep == \E t \in Threads : CheckRegistry(t)
CreateRegistryStep == \E t \in Threads : CreateRegistry(t)
StoreEntryStep == \E t \in Threads : StoreEntry(t)

NextThreads == ThreadCallStep \/ CheckRegistryStep \/ CreateRegistryStep \/ StoreEntryStep

SpecThreads == Init /\ [][NextThreads]_vars

(***************************************************************************)
(* SpecWriters: threads that call the builder.  `stdout` is the stream as  *)
(* the consumer process can read it.  print(text, flush=True) is           *)
(* file.write(text), file.write("\n"), file.flush(): the text layer of     *)
(* sys.stdout keeps what is written until the flush, unless a write        *)
(* reaches its chunk size, which it passes on at once.  The interpreter    *)
(* may switch threads while a write is passed on to the operating system.  *)
(***************************************************************************)
\* chunk size of the text layer (8192 bytes), in tokens of the model
ChunkSize == 80

\* an entity graph with many entities
LongGraph ==
    PyDict(<< <<"entities", PyList(<<
                  PyDict(<< <<"entityId", PyStr("entity-1")>>,
                            <<"properties", PyDict(<< <<"color", PyStr("#ff0000")>> >>)>> >>),
                  PyDict(<< <<"entityId", PyStr("entity-2")>>,
                            <<"properties", PyDict(<< <<"color", PyStr("#112233")>> >>)>> >>),
                  PyDict(<< <<"entityId", PyStr("entity-3")>>,
                            <<"properties", PyDict(<< <<"color", PyStr("#ffffff")>> >>)>> >>) >>)>>,
              <<"links", PyList(<< >>)>> >>)

\* argument lists of the builder calls made by the threads
WriterInputs ==
    { EmitArgs(WhiteGraph, PyNone, DefaultDisplayMode, DefaultInitialHeight),
      EmitArgs(WhiteGraph, TestResources, DefaultDisplayMode, DefaultInitialHeight),
      EmitArgs(LongGraph, TestResources, DefaultDisplayMode, DefaultInitialHeight),
      EmitArgs(LongGraph, PyNone, PyStr("inline"), PyInt(100)),
      EmitArgs(EntityGraph(PyStr("entity-1"), PySet("{1, 2}")), PyNone,
               DefaultDisplayMode, DefaultInitialHeight) }

\* thread t calls the builder: the notification is built and json.dumps
\* returns its text, or raises
WriterCall(t, a) ==
    /\ threads[t].pc = "idle"
    /\ LET notification == Notification(a.block_id, a.block_type, a.entity_id,
                               a.entity_graph, a.resources, a.display_mode,
                               a.initial_height)
       IN  threads' = [threads EXCEPT ![t] =
               IF Serializable(notification)
               THEN [Idle EXCEPT !.pc = "print",
                                 !.fn = "emit_vivafolioblock_notification",
                                 !.text = JsonDumps(notification)]
               ELSE [Idle EXCEPT !.pc = "done",
                                 !.fn = "emit_vivafolioblock_notification",
                                 !.exc = "TypeError"]]
    /\ emitCalls' = emitCalls + 1
    /\ UNCHANGED <<stdout, registry, last, runNo, earlier>>

\* print of a text below the chunk size: text and newline are kept and reach
\* the stream together at the flush
PrintWhole(t) ==
    /\ threads[t].pc = "print"
    /\ Len(threads[t].text) < ChunkSize
    /\ stdout' = WriteLine(stdout, threads[t].text)
    /\ threads' = [threads EXCEPT ![t].pc = "done"]
    /\ UNCHANGED <<registry, emitCalls, last, runNo, earlier>>

\* file.write(text) of a text that reaches the chunk size: passed on at once
PrintText(t) ==
    /\ threads[t].pc = "print"
    /\ Len(threads[t].text) >= ChunkSize
    /\ stdout' = stdout \o threads[t].text
    /\ threads' = [threads EXCEPT ![t].pc = "end"]
    /\ UNCHANGED <<registry, emitCalls, last, runNo, earlier>>

\* file.write("\n"); file.flush()
PrintEnd(t) ==
    /\ threads[t].pc = "end"
    /\ stdout' = stdout \o <<NL>>
    /\ threads' = [threads EXCEPT ![t].pc = "done"]
    /\ UNCHANGED <<registry, emitCalls, last, runNo, earlier>>

WriterCallStep == \E t \in Threads, a \in WriterInputs : WriterCall(t, a)
PrintWholeStep == \E t \in Threads : PrintWhole(t)
PrintTextStep == \E t \in Threads : PrintText(t)
PrintEndStep == \E t \in Threads : PrintEnd(t)

NextWriters == WriterCallStep \/ PrintWholeStep \/ PrintTextStep \/ PrintEndStep

SpecWriters == Init /\ [][NextWriters]_vars

(***************************************************************************)
(* Properties                                                              *)
(***************************************************************************)
EmittingFns == {"emit_vivafolioblock_notification", "color_picker", "show_square",
                "vivafolio_picker", "vivafolio_square"}
LegacyFns == {"vivafolio_picker", "vivafolio_square"}

\* what the last call wrote
Written == SubSeq(stdout, last.base + 1, Len(stdout))

\* the last call wrote exactly one newline-terminated line
WroteOneLine ==
    /\ Len(Written) > 1
    /\ NewlineAt(Written) = {Len(Written)}

\* the parsed last line of the stream
LastNote == JsonLoads(Lines(stdout)[Len(Lines(stdout))])

UriOf(slug) == PyStr("https://blockprotocol.org/@blockprotocol/types/block-type/"
                     \o slug \o "/")

\* C1: every call of the builder, direct or through one of the block
\* functions, appends exactly one newline-terminated line to standard output
\* and leaves the gui_state registry alone, so that after n calls of the
\* builder the stream holds exactly n lines.
C1_OneLinePerCall ==
    /\ [](Cardinality(NewlineAt(stdout)) = emitCalls)
    /\ [][emitCalls' = emitCalls + 1 =>
            /\ Len(stdout') > Len(stdout) + 1
            /\ SubSeq(stdout', 1, Len(stdout)) = stdout
            /\ NewlineAt(stdout') = NewlineAt(stdout) \cup {Len(stdout')}
            /\ registry' = registry]_vars

\* C2: show_square(color_picker(gui_state(v))) for a color v: gui_state writes
\* nothing; the chain writes exactly two lines, first the color-picker
\* notification with color v, then the color-square notification with color v;
\* color_picker and show_square both return v.
C2_InlineChain ==
    last.v0 \in Colors =>
      /\ last.via = <<"gui_state">> => Written = << >> /\ last.ret = last.v0
      /\ last.via = <<"gui_state", "color_picker">> =>
            last.exc = "" /\ last.ret = last.v0
      /\ last.via = <<"gui_state", "color_picker", "show_square">> =>
            /\ last.exc = "" /\ last.ret = last.v0
            /\ Len(Written) > 0 /\ Written[Len(Written)] = NL
            /\ Cardinality(NewlineAt(Written)) = 2
            /\ LET first == JsonLoads(Lines(Written)[1])
                   second == JsonLoads(Lines(Written)[2])
               IN  /\ first.ok /\ second.ok
                   /\ Field(first.val, "blockType") = UriOf("color-picker")
                   /\ ColorOf(first.val) = last.v0
                   /\ Field(second.val, "blockType") = UriOf("color-square")
                   /\ ColorOf(second.val) = last.v0

C2_Witness ==
    /\ last.via = <<"gui_state", "color_picker", "show_square">>
    /\ last.v0 = PyStr("#ff0000")
    /\ last.exc = ""
    /\ Len(Lines(stdout)) = 2

\* whether the last call supplied a non-empty resource list to the builder
SuppliedResources ==
    IF last.fn = "emit_vivafolioblock_notification"
    THEN last.args[5].t = "list" /\ Len(last.args[5].v) > 0
    ELSE last.exists

\* C3: a notification has a `resources` key exactly when a non-empty resource
\* list was supplied to the builder (never an empty list, and none when the
\* block function found no resource file); blockId, blockType, entityId and
\* entityGraph are in every notification.
C3_ResourcesKey ==
    /\ \A i \in 1..Len(Lines(stdout)) :
          LET n == JsonLoads(Lines(stdout)[i])
          IN  /\ n.ok
              /\ {"blockId", "blockType", "entityId", "entityGraph"} \subseteq DictKeys(n.val)
              /\ "resources" \in DictKeys(n.val) =>
                    /\ Field(n.val, "resources").t = "list"
                    /\ Len(Field(n.val, "resources").v) > 0
    /\ (last.fn \in EmittingFns /\ last.exc = "") =>
          /\ WroteOneLine
          /\ ("resources" \in DictKeys(LastNote.val)) <=> SuppliedResources

C3_Witness ==
    /\ last.fn = "emit_vivafolioblock_notification"
    /\ last.args[5] = PyList(<< >>)
    /\ last.exc = ""
    /\ WroteOneLine
    /\ "resources" \notin DictKeys(LastNote.val)

\* C4: for every input value x, color_picker(x) and show_square(x) return x.
C4_ReturnsInput ==
    last.fn \in {"color_picker", "show_square"} =>
        last.exc = "" /\ last.ret = last.args[1]

MalformedAt(src, i) == ReSearch(src[i]).found /\ ~JsonLoads(ReSearch(src[i]).group).ok
ParsableAt(src, i) == ReSearch(src[i]).found /\ JsonLoads(ReSearch(src[i]).group).ok

\* the last call completed and wrote one notification with this color
EmittedColor(color) ==
    /\ last.exc = ""
    /\ WroteOneLine
    /\ LastNote.ok
    /\ ColorOf(LastNote.val) = color

\* C6 as stated: whenever the caller source has a `# gui_state:` marker whose
\* text fails to parse as JSON, vivafolio_picker and vivafolio_square complete
\* and emit the default color #3700ff.
C6_MalformedGivesDefault ==
    (/\ last.fn \in LegacyFns
     /\ \E i \in 1..Len(last.src) : MalformedAt(last.src, i))
    => EmittedColor(PyStr("#3700ff"))

\* C6 amended: whenever the text of every `# gui_state:` marker of the caller
\* source fails to parse as JSON, vivafolio_picker and vivafolio_square
\* complete and emit the default color #3700ff.
C6_AllMalformedGivesDefault ==
    (/\ last.fn \in LegacyFns
     /\ \E i \in 1..Len(last.src) : MalformedAt(last.src, i)
     /\ \A i \in 1..Len(last.src) : ~ParsableAt(last.src, i))
    => EmittedColor(PyStr("#3700ff"))

C6_Witness ==
    /\ last.fn = "vivafolio_square"
    /\ last.src = <<BadLine, PickerLine>>
    /\ EmittedColor(PyStr("#3700ff"))

\* line is `# gui_state: {"properties":{"color":c}}`
IsStateLine(line, c) == ReSearch(line).found /\ ReSearch(line).group = StateText(c)

HasMarker(src) == \E i \in 1..Len(src) : \E j \in 1..Len(src[i]) : src[i][j] = Marker

CommentColors == {"#ff0000", "#112233"}

\* C7 as stated: when the caller source contains a line
\* `# gui_state: {"properties":{"color":c}}`, vivafolio_picker emits color c;
\* when it contains no gui_state comment, it emits #3700ff.
C7_CommentColorEmitted ==
    last.fn = "vivafolio_picker" =>
      /\ \A c \in CommentColors :
            (\E i \in 1..Len(last.src) : IsStateLine(last.src[i], c))
            => EmittedColor(PyStr(c))
      /\ ~HasMarker(last.src) => EmittedColor(PyStr("#3700ff"))

\* C7 amended: when the first line of the caller source whose marker text
\* parses as JSON is `# gui_state: {"properties":{"color":c}}`,
\* vivafolio_picker emits color c; when the source contains no gui_state
\* comment, it emits #3700ff.
C7_FirstParsableColorEmitted ==
    last.fn = "vivafolio_picker" =>
      /\ \A c \in CommentColors :
            (\E i \in 1..Len(last.src) :
                /\ IsStateLine(last.src[i], c)
                /\ \A j \in 1..(i - 1) : ~ParsableAt(last.src, j))
            => EmittedColor(PyStr(c))
      /\ ~HasMarker(last.src) => EmittedColor(PyStr("#3700ff"))

C7_Witness ==
    /\ last.fn = "vivafolio_picker"
    /\ last.src = <<BadLine, GoodLine("#112233")>>
    /\ EmittedColor(PyStr("#112233"))

\* the registry entry of a call site, Absent if there is none
Absent == [t |-> "absent", v |-> ""]
KeyOf(site) == site[1] \o ":" \o ToString(site[2])
Lookup(reg, site) == IF reg.has THEN DictGet(reg.d, KeyOf(site), Absent) ELSE Absent

\* C8: gui_state(value) stores value under the key of its call site (file and
\* line) and returns value; the entries of all other call sites stay as they
\* were, so the registry maps every site used to the last value passed there.
\* A call without a caller frame has no call site and stores nothing.
C8_RegistryStep ==
    [][last'.fn = "gui_state" =>
          /\ last'.exc = "" /\ last'.ret = last'.args[1]
          /\ registry'.has
          /\ last'.site # NoSite => Lookup(registry', last'.site) = last'.args[1]
          /\ \A other \in Sites \ {last'.site} :
                Lookup(registry', other) = Lookup(registry, other)
          /\ DictKeys(registry'.d) \subseteq {KeyOf(site) : site \in Sites}]_vars

C8_Witness ==
    /\ last.fn = "gui_state"
    /\ Len(registry.d.v) >= 2
    /\ registry.d.v[1][1] = KeyOf(last.site)
    /\ registry.d.v[1][2] = last.args[1]
    /\ registry.d.v[2][2] # last.args[1]

\* C9 as stated: the parsed line of a completed call of the builder has the
\* entityGraph passed in, the resource list passed in and the block type URI
\* of the slug; for color_picker and show_square its color is the input.
C9_RoundTrip ==
    (last.fn \in {"emit_vivafolioblock_notification", "color_picker", "show_square"}
     /\ last.exc = "") =>
      /\ WroteOneLine /\ LastNote.ok
      /\ last.fn = "emit_vivafolioblock_notification" =>
            /\ Field(LastNote.val, "entityGraph") = last.args[4]
            /\ last.args[5].t = "list" => Field(LastNote.val, "resources") = last.args[5]
            /\ Field(LastNote.val, "blockType") = UriOf(last.args[2].v)
      /\ last.fn \in {"color_picker", "show_square"} =>
            ColorOf(LastNote.val) = last.args[1]

\* C9 amended: as C9, but the parsed line has the resource list passed in when
\* that list is not empty, and no `resources` at all when it is empty.
C9_RoundTripNonEmpty ==
    (last.fn \in {"emit_vivafolioblock_notification", "color_picker", "show_square"}
     /\ last.exc = "") =>
      /\ WroteOneLine /\ LastNote.ok
      /\ last.fn = "emit_vivafolioblock_notification" =>
            /\ Field(LastNote.val, "entityGraph") = last.args[4]
            /\ (last.args[5].t = "list" /\ Len(last.args[5].v) > 0) =>
                  Field(LastNote.val, "resources") = last.args[5]
            /\ (last.args[5].t = "list" /\ Len(last.args[5].v) = 0) =>
                  "resources" \notin DictKeys(LastNote.val)
            /\ Field(LastNote.val, "blockType") = UriOf(last.args[2].v)
      /\ last.fn \in {"color_picker", "show_square"} =>
            ColorOf(LastNote.val) = last.args[1]

C9_Witness ==
    /\ last.fn = "emit_vivafolioblock_notification"
    /\ last.args[5] = TestResources
    /\ last.exc = ""
    /\ Field(LastNote.val, "resources") = TestResources
    /\ Field(LastNote.val, "entityGraph") = WhiteGraph

\* C10: a call of the builder with an entity graph that lacks `entities` or
\* `links` fails with InvalidEntityGraph and writes nothing.
C10_MalformedGraphRejected ==
    (/\ last.fn = "emit_vivafolioblock_notification"
     /\ ~({"entities", "links"} \subseteq DictKeys(last.args[4])))
    => (last.exc = "InvalidEntityGraph" /\ Written = << >>)

PublicFns == {"gui_state", "color_picker", "show_square",
              "vivafolio_picker", "vivafolio_square"}

\* C11: every public entry point completes without raising on every input:
\* vivafolio_picker and vivafolio_square when the marker text parses as JSON
\* but its `properties` is not a mapping, color_picker and show_square for a
\* value that has a string form but is not JSON-serializable.
C11_NoRaise ==
    last.fn \in PublicFns => last.exc = ""

\* C12: inserts into the registry are guarded against other threads: when the
\* gui_state calls of all threads, made at distinct call sites, have
\* completed, the registry holds an entry for every one of those call sites.
C12_NoLostInsert ==
    (\A t \in Threads : threads[t].fn = "gui_state" /\ threads[t].pc = "done")
    => \A t \in Threads : Lookup(registry, ThreadSite(t)) # Absent

\* the stream is a sequence of whole newline-terminated JSON lines
WholeJsonLines(out) ==
    /\ out # << >> => out[Len(out)] = NL
    /\ \A i \in 1..Len(Lines(out)) : JsonLoads(Lines(out)[i]).ok

\* C13: whenever the consumer reads standard output, its content is a sequence
\* of whole newline-terminated JSON lines: no partial line is ever visible and
\* the text of one notification is never split or mixed with another's.
C13_WholeLinesOnly == WholeJsonLines(stdout)

\* the digests of the string forms of the values of the model
Digests == {Md5Hex8(Str(value)) : value \in Values \cup RunValues}

\* the four identifiers built from digest d
PickerBlockId(d) == "color-picker-" \o d
PickerEntityId(d) == "color-entity-" \o d
SquareBlockId(d) == "color-square-" \o d
SquareEntityId(d) == "square-entity-" \o d

\* the entities of the entity graph of a parsed line
EntitiesOf(notification) == Field(Field(notification, "entityGraph"), "entities")

\* C14: every line of color_picker is color-picker-<d> / color-entity-<d> and
\* every line of show_square is color-square-<d> / square-entity-<d> for one
\* digest d; lines for the same input value have the same d, so their four
\* identifiers are built from one digest and are pairwise distinct; the
\* top-level entityId of a line is the entityId of the single entity of its
\* entity graph.
C14_OneDigest ==
    LET lines == Lines(stdout)
        notes == {JsonLoads(lines[i]).val : i \in 1..Len(lines)}
        pickers == {n \in notes : Field(n, "blockType") = UriOf("color-picker")}
        squares == {n \in notes : Field(n, "blockType") = UriOf("color-square")}
    IN  /\ notes = pickers \cup squares
        /\ \A a \in pickers : \E d \in Digests :
              /\ Field(a, "blockId") = PyStr(PickerBlockId(d))
              /\ Field(a, "entityId") = PyStr(PickerEntityId(d))
        /\ \A b \in squares : \E d \in Digests :
              /\ Field(b, "blockId") = PyStr(SquareBlockId(d))
              /\ Field(b, "entityId") = PyStr(SquareEntityId(d))
        /\ \A a \in pickers, b \in squares :
              Str(ColorOf(a)) = Str(ColorOf(b))
              => /\ \E d \in Digests :
                       /\ Field(a, "blockId") = PyStr(PickerBlockId(d))
                       /\ Field(a, "entityId") = PyStr(PickerEntityId(d))
                       /\ Field(b, "blockId") = PyStr(SquareBlockId(d))
                       /\ Field(b, "entityId") = PyStr(SquareEntityId(d))
                 /\ Cardinality({Field(a, "blockId"), Field(a, "entityId"),
                                 Field(b, "blockId"), Field(b, "entityId")}) = 4
        /\ \A n \in notes :
              /\ EntitiesOf(n).t = "list"
              /\ Len(EntitiesOf(n).v) = 1
              /\ Field(Item(EntitiesOf(n), 1), "entityId") = Field(n, "entityId")

C14_Witness ==
    \E a \in IdsOf(stdout), b \in IdsOf(stdout) :
        /\ a.text = "#ff0000" /\ b.text = "#ff0000"
        /\ a.blockId = "color-picker-cc704d2a"
        /\ b.blockId = "color-square-cc704d2a"

\* line i is the first line of the source whose marker text parses as JSON
FirstParsableAt(src, i) ==
    ParsableAt(src, i) /\ \A j \in 1..(i - 1) : ~ParsableAt(src, j)

\* the object the marker text of line i parses to
StateAt(src, i) == JsonLoads(ReSearch(src[i]).group).val

\* {"properties": {"color": "#3700ff"}}
DefaultBlue ==
    PyDict(<< <<"properties", PyDict(<< <<"color", PyStr("#3700ff")>> >>)>> >>)

\* the color a state object gives a block, when its `properties` is a mapping
ColorIn(state) ==
    DictGet(DictGet(state, "properties", PyDict(<< >>)), "color", PyStr("#3700ff"))

====
